---------------------------- MODULE Spec2Model ----------------------------
(***************************************************************************)
(* Model of the RHEL/CentOS curtin hook (contrib/rhel/curtin/curtin-hooks  *)
(* .py) in its two revisions R33 and R46.  Text is modelled by TLA+        *)
(* strings, Python lists by sequences, external commands (util.subp,       *)
(* util.RunInChroot) by steps whose success is chosen nondeterministically.*)
(***************************************************************************)
EXTENDS Integers, Sequences, FiniteSets, TLC

(***************************************************************************)
(* Python values that are not text.                                        *)
(***************************************************************************)
None == "<None>"
Raised == "<raised>"
Unread == "<unread>"

(***************************************************************************)
(* str helpers, computed as CPython computes them.                         *)
(***************************************************************************)
Char(s, i) == SubSeq(s, i, i)

StartsWith(s, p) == Len(s) >= Len(p) /\ SubSeq(s, 1, Len(p)) = p

Whitespace == {" ", "\n", "\r", "\t"}

\* index of the first occurrence of the one-character string c in s at or
\* after position i, 0 if none
FindFrom(s, c, i) ==
    LET hits == {j \in i..Len(s) : Char(s, j) = c} IN
    IF hits = {} THEN 0 ELSE CHOOSE j \in hits : \A k \in hits : j <= k

\* s.split(sep) for a one-character sep: every field, empty ones included
RECURSIVE SplitOn(_, _)
SplitOn(s, sep) ==
    LET k == FindFrom(s, sep, 1) IN
    IF k = 0 THEN <<s>>
    ELSE <<SubSeq(s, 1, k - 1)>> \o SplitOn(SubSeq(s, k + 1, Len(s)), sep)

\* s.split(): fields between runs of whitespace, no empty field
RECURSIVE SplitWs(_)
SplitWs(s) ==
    LET starts == {j \in 1..Len(s) : Char(s, j) \notin Whitespace} IN
    IF starts = {} THEN <<>>
    ELSE LET b == CHOOSE j \in starts : \A k \in starts : j <= k
             stops == {j \in b..Len(s) : Char(s, j) \in Whitespace}
             e == IF stops = {} THEN Len(s) + 1
                  ELSE CHOOSE j \in stops : \A k \in stops : j <= k
         IN  <<SubSeq(s, b, e - 1)>> \o SplitWs(SubSeq(s, e, Len(s)))

\* sep.join(list)
RECURSIVE Join(_, _)
Join(list, sep) ==
    IF list = <<>> THEN ""
    ELSE IF Len(list) = 1 THEN list[1]
    ELSE list[1] \o sep \o Join(Tail(list), sep)

\* s.replace(old, "")
RECURSIVE Remove(_, _)
Remove(s, old) ==
    IF Len(s) < Len(old) \/ s = "" THEN s
    ELSE IF StartsWith(s, old) THEN Remove(SubSeq(s, Len(old) + 1, Len(s)), old)
    ELSE Char(s, 1) \o Remove(SubSeq(s, 2, Len(s)), old)

UpperLetters == "ABCDEFGHIJKLMNOPQRSTUVWXYZ"
LowerLetters == "abcdefghijklmnopqrstuvwxyz"

\* s.lower() and s.upper(): the letters change case, the rest stays
LowerTable ==
    [c \in {Char(UpperLetters, i) : i \in 1..Len(UpperLetters)} |->
        Char(LowerLetters, FindFrom(UpperLetters, c, 1))]

UpperTable ==
    [c \in {Char(LowerLetters, i) : i \in 1..Len(LowerLetters)} |->
        Char(UpperLetters, FindFrom(LowerLetters, c, 1))]

RECURSIVE MapChars(_, _)
MapChars(s, table) ==
    IF s = "" THEN ""
    ELSE (IF Char(s, 1) \in DOMAIN table THEN table[Char(s, 1)] ELSE Char(s, 1))
             \o MapChars(SubSeq(s, 2, Len(s)), table)

Lower(s) == MapChars(s, LowerTable)
Upper(s) == MapChars(s, UpperTable)

\* the character standing for any character outside ASCII
NonAscii == "~"
IsAscii(s) == FindFrom(s, NonAscii, 1) = 0

(***************************************************************************)
(* Module constants of the hook.                                           *)
(***************************************************************************)
Revisions == {"R33", "R46"}

FSTAB_PREPEND ==
    "#\n"
    \o "# /etc/fstab\n"
    \o "# Created by MAAS fast-path installer.\n"
    \o "#\n"
    \o "# Accessible filesystems, by reference, are maintained under '/dev/disk'\n"
    \o "# See man pages fstab(5), findfs(8), mount(8) and/or blkid(8) for more info\n"
    \o "#\n"

FSTAB_UEFI == "LABEL=uefi-boot /boot/efi vfat defaults 0 0\n"

GRUB_PREPEND ==
    "# Set by MAAS fast-path installer.\n"
    \o "GRUB_TIMEOUT=0\n"
    \o "GRUB_TERMINAL_OUTPUT=console\n"
    \o "GRUB_DISABLE_OS_PROBER=true\n"

(***************************************************************************)
(* read_file.  R33 (Python 2) reads bytes and calls .encode('utf-8') on    *)
(* them, which decodes them as ASCII first: it raises on any other byte    *)
(* and returns ASCII content as it is.  R46 (Python 3) opens the file in   *)
(* text mode, where "\r\n" and "\r" are read as "\n".                      *)
(***************************************************************************)
RECURSIVE AfterCarriageReturns(_)
AfterCarriageReturns(fields) ==
    IF fields = <<>> THEN ""
    ELSE LET f == Head(fields) IN
         "\n" \o (IF StartsWith(f, "\n") THEN SubSeq(f, 2, Len(f)) ELSE f)
              \o AfterCarriageReturns(Tail(fields))

UniversalNewlines(s) ==
    LET fields == SplitOn(s, "\r") IN
    Head(fields) \o AfterCarriageReturns(Tail(fields))

read_file(r, content) ==
    IF r = "R33"
    THEN (IF IsAscii(content) THEN content ELSE Raised)
    ELSE UniversalNewlines(content)

(***************************************************************************)
(* write_fstab: the file is opened with mode 'w', so what it held (old) is *)
(* dropped.                                                                *)
(***************************************************************************)
write_fstab(old, fstab_data, is_uefi_bootable) ==
    FSTAB_PREPEND \o fstab_data \o (IF is_uefi_bootable THEN FSTAB_UEFI ELSE "")

(***************************************************************************)
(* strip_kernel_params                                                     *)
(***************************************************************************)
RECURSIVE strip_kernel_params(_, _)
strip_kernel_params(params, strip_params) ==
    IF params = <<>> THEN <<>>
    ELSE LET param == Head(params)
             remove == \E i \in 1..Len(strip_params) : StartsWith(param, strip_params[i])
         IN  (IF remove = FALSE THEN <<param>> ELSE <<>>)
                 \o strip_kernel_params(Tail(params), strip_params)

\* list.index(x), counted from 0 as Python counts; x is in the list
RECURSIVE PyIndex(_, _)
PyIndex(list, v) == IF Head(list) = v THEN 0 ELSE 1 + PyIndex(Tail(list), v)

PyIn(v, list) == \E i \in 1..Len(list) : list[i] = v

\* list[idx:]
PySliceFrom(list, idx) == SubSeq(list, idx + 1, Len(list))

(***************************************************************************)
(* get_extra_kernel_parameters, given what read_file('/proc/cmdline')      *)
(* returned.                                                               *)
(***************************************************************************)
\* get_extra_kernel_parameters without the "+ 1": the "--" stays in the list
get_extra_kernel_parameters_KeepsSeparator(cmdline_text) ==
    LET cmdline == SplitWs(cmdline_text) IN
    IF ~PyIn("--", cmdline) THEN <<>>
    ELSE LET idx == PyIndex(cmdline, "--") IN
         IF idx >= Len(cmdline) + 1 THEN <<>>
         ELSE strip_kernel_params(PySliceFrom(cmdline, idx),
                                  <<"initrd=", "BOOT_IMAGE=", "BOOTIF=">>)

get_extra_kernel_parameters(cmdline_text) ==
    LET cmdline == SplitWs(cmdline_text) IN
    IF ~PyIn("--", cmdline) THEN <<>>
    ELSE LET idx == PyIndex(cmdline, "--") + 1 IN
         IF idx >= Len(cmdline) + 1 THEN <<>>
         ELSE strip_kernel_params(PySliceFrom(cmdline, idx),
                                  <<"initrd=", "BOOT_IMAGE=", "BOOTIF=">>)

(***************************************************************************)
(* update_grub_default: the list handed in gets two more entries in R46;   *)
(* the file is opened with mode 'a'.                                       *)
(***************************************************************************)
grub_extra(r, extra) ==
    IF r = "R46" THEN extra \o <<"fsck.mode=skip", "rootfstype=ext4">> ELSE extra

\* update_grub_default opening the file with mode 'w'
update_grub_default_Truncating(r, old, extra) ==
    LET kernel_cmdline == Join(grub_extra(r, extra), " ") IN
    GRUB_PREPEND \o "GRUB_CMDLINE_LINUX=\"" \o kernel_cmdline \o "\"\n"

update_grub_default(r, old, extra) ==
    LET kernel_cmdline == Join(grub_extra(r, extra), " ") IN
    old \o GRUB_PREPEND \o "GRUB_CMDLINE_LINUX=\"" \o kernel_cmdline \o "\"\n"

(***************************************************************************)
(* get_boot_mac, given what read_file('/proc/cmdline') returned.  The      *)
(* unpacking "_, mac = bootif.split('=')" raises ValueError unless the     *)
(* split gives exactly two fields.                                         *)
(***************************************************************************)
IsBootif(option) == StartsWith(option, "BOOTIF")

\* get_boot_mac keeping the first hyphen-separated field: mac.split('-')
\* without the [1:]
get_boot_mac_KeepsFirstField(cmdline_text) ==
    LET cmdline == SplitWs(cmdline_text)
        bootifs == SelectSeq(cmdline, IsBootif)
    IN  IF bootifs = <<>> THEN None
        ELSE LET bootif == bootifs[1]
                 fields == SplitOn(bootif, "=")
             IN  IF Len(fields) # 2 THEN Raised
                 ELSE Join(SplitOn(fields[2], "-"), ":")

get_boot_mac(cmdline_text) ==
    LET cmdline == SplitWs(cmdline_text)
        bootifs == SelectSeq(cmdline, IsBootif)
    IN  IF bootifs = <<>> THEN None
        ELSE LET bootif == bootifs[1]
                 fields == SplitOn(bootif, "=")
             IN  IF Len(fields) # 2 THEN Raised
                 ELSE LET mac == PySliceFrom(SplitOn(fields[2], "-"), 1)
                      IN  Join(mac, ":")


(***************************************************************************)
(* get_interface_names: the dictionary from the lower-cased, stripped      *)
(* content of /sys/class/net/<iname>/address to iname, filled in the order *)
(* of os.listdir, a later interface replacing an earlier one with the same *)
(* address.  listing is the sequence of <<iname, content of address>>.     *)
(***************************************************************************)
RECURSIVE LStrip(_)
LStrip(s) ==
    IF s # "" /\ Char(s, 1) \in Whitespace THEN LStrip(SubSeq(s, 2, Len(s))) ELSE s

RECURSIVE RStrip(_)
RStrip(s) ==
    IF s # "" /\ Char(s, Len(s)) \in Whitespace
    THEN RStrip(SubSeq(s, 1, Len(s) - 1)) ELSE s

Strip(s) == RStrip(LStrip(s))

EmptyDict == [k \in {} |-> ""]

RECURSIVE get_interface_names(_)
get_interface_names(listing) ==
    IF listing = <<>> THEN EmptyDict
    ELSE LET n == Len(listing)
             iname == listing[n][1]
             mac == Lower(Strip(listing[n][2]))
         IN  (mac :> iname) @@ get_interface_names(SubSeq(listing, 1, n - 1))

(***************************************************************************)
(* get_ipv4_config: data is a Python dict, here a function whose domain    *)
(* is the set of its keys.  The result is [raised, text].                  *)
(***************************************************************************)
\* BootprotoStatic with the values of the two revisions exchanged
BootprotoStatic_Exchanged(r) == IF r = "R33" THEN "static" ELSE "none"

BootprotoStatic(r) == IF r = "R33" THEN "none" ELSE "static"

Has(data, key) == key \in DOMAIN data

get_ipv4_config(r, iface, data) ==
    LET head == <<"TYPE=\"Ethernet\"", "NM_CONTROLLED=\"no\"", "USERCTL=\"yes\"">>
        hw == IF Has(data, "hwaddress")
              THEN <<"HWADDR=\"" \o data["hwaddress"] \o "\"">>
              ELSE <<"DEVICE=\"" \o iface \o "\"">>
        onboot == IF data["auto"] THEN <<"ONBOOT=\"yes\"">> ELSE <<"ONBOOT=\"no\"">>
        method == data["method"]
        dhcp == <<"BOOTPROTO=\"dhcp\"", "PEERDNS=\"yes\"", "PERSISTENT_DHCLIENT=\"1\"">>
                \o (IF Has(data, "hostname")
                    THEN <<"DHCP_HOSTNAME=\"" \o data["hostname"] \o "\"">> ELSE <<>>)
        static == <<"BOOTPROTO=\"" \o BootprotoStatic(r) \o "\"",
                    "IPADDR=\"" \o data["address"] \o "\"",
                    "NETMASK=\"" \o data["netmask"] \o "\"">>
                  \o (IF Has(data, "broadcast")
                      THEN <<"BROADCAST=\"" \o data["broadcast"] \o "\"">> ELSE <<>>)
                  \o (IF Has(data, "gateway")
                      THEN <<"GATEWAY=\"" \o data["gateway"] \o "\"">> ELSE <<>>)
    IN  IF method = "static" /\ (~Has(data, "address") \/ ~Has(data, "netmask"))
        THEN [raised |-> TRUE, text |-> ""]
        ELSE [raised |-> FALSE,
              text |-> Join(head \o hw \o onboot
                            \o (IF method = "dhcp" THEN dhcp
                                ELSE IF method = "static" THEN static
                                ELSE IF method = "manual" THEN <<"BOOTPROTO=\"none\"">>
                                ELSE <<>>), "\n")]

(***************************************************************************)
(* write_interface_config: [raised, written, path, text].  For a family    *)
(* other than inet the warning calls a string, which raises TypeError.     *)
(***************************************************************************)
IfcfgPath(iface) == "etc/sysconfig/network-scripts/ifcfg-" \o iface

write_interface_config(r, iface, data) ==
    IF data["family"] # "inet"
    THEN [raised |-> TRUE, written |-> FALSE, path |-> "", text |-> ""]
    ELSE LET config == get_ipv4_config(r, iface, data) IN
         IF config.raised
         THEN [raised |-> TRUE, written |-> FALSE, path |-> "", text |-> ""]
         ELSE [raised |-> FALSE, written |-> TRUE, path |-> IfcfgPath(iface),
               text |-> config.text \o "\n"]

(***************************************************************************)
(* get_address_gatway_message (R46): network_config is a sequence of       *)
(* dicts; an entry may lack "name" (read with .get) and may lack           *)
(* "subnets", a subnet may lack "gateway" or "address" (KeyError).         *)
(* The result is [raised, address, gateway].                               *)
(***************************************************************************)
\* ScanSubnets reading the keys with .get: a subnet without gateway or
\* address is passed over
RECURSIVE ScanSubnets_Lenient(_, _)
ScanSubnets_Lenient(subnets, acc) ==
    IF subnets = <<>> \/ acc.raised THEN acc
    ELSE LET sub == Head(subnets) IN
         IF ~Has(sub, "gateway") \/ ~Has(sub, "address")
         THEN ScanSubnets_Lenient(Tail(subnets), acc)
         ELSE ScanSubnets_Lenient(Tail(subnets),
                  [raised |-> FALSE, flag |-> TRUE,
                   address |-> Remove(sub["address"], "/24"),
                   gateway |-> sub["gateway"]])

RECURSIVE ScanSubnets(_, _)
ScanSubnets(subnets, acc) ==
    IF subnets = <<>> \/ acc.raised THEN acc
    ELSE LET sub == Head(subnets) IN
         IF ~Has(sub, "gateway") \/ ~Has(sub, "address")
         THEN [acc EXCEPT !.raised = TRUE]
         ELSE ScanSubnets(Tail(subnets),
                  [raised |-> FALSE, flag |-> TRUE,
                   address |-> Remove(sub["address"], "/24"),
                   gateway |-> sub["gateway"]])

RECURSIVE ScanConfig(_, _, _)
ScanConfig(network_config, iname, acc) ==
    IF network_config = <<>> \/ acc.raised THEN acc
    ELSE LET config_line == Head(network_config)
             name == IF Has(config_line, "name") THEN config_line["name"] ELSE ""
         IN  IF name = iname
             THEN (IF ~Has(config_line, "subnets")
                   THEN [acc EXCEPT !.raised = TRUE]
                   ELSE ScanConfig(Tail(network_config), iname,
                                   ScanSubnets(config_line["subnets"], acc)))
             ELSE ScanConfig(Tail(network_config), iname, acc)

get_address_gatway_message(network_config, iname) ==
    LET acc == ScanConfig(network_config, iname,
                   [raised |-> FALSE, flag |-> FALSE, address |-> None, gateway |-> None])
    IN  IF acc.raised \/ ~acc.flag
        THEN [raised |-> TRUE, address |-> acc.address, gateway |-> acc.gateway]
        ELSE [raised |-> FALSE, address |-> acc.address, gateway |-> acc.gateway]

(***************************************************************************)
(* write_network_config: the data handed to write_interface_config, or a   *)
(* raise.  network_config is [kind, list]: None when kind is "null", else  *)
(* the list of dicts; R33 takes none.                                      *)
(***************************************************************************)
NoWrite == [raised |-> TRUE, written |-> FALSE, path |-> "", text |-> ""]

write_network_config(r, listing, mac, network_config) ==
    LET inames == get_interface_names(listing) IN
    IF Lower(mac) \notin DOMAIN inames THEN NoWrite
    ELSE LET iname == inames[Lower(mac)] IN
         IF r = "R33"
         THEN write_interface_config(r, iname,
                  [family |-> "inet", hwaddress |-> Upper(mac), auto |-> TRUE,
                   method |-> "dhcp"])
         ELSE IF network_config.kind = "null" THEN NoWrite
         ELSE LET ag == get_address_gatway_message(network_config.list, iname) IN
              IF ag.raised THEN NoWrite
              ELSE write_interface_config(r, iname,
                       [family |-> "inet", hwaddress |-> Upper(mac), auto |-> TRUE,
                        method |-> "static", address |-> ag.address,
                        gateway |-> ag.gateway, netmask |-> "255.255.255.0"])


(***************************************************************************)
(* get_block_devices: the set of block devices of the partitions mounted   *)
(* at the target.  block.get_blockdev_for_partition is curtin's: here the  *)
(* partition path without its trailing partition number.                   *)
(***************************************************************************)
Digits == {"0", "1", "2", "3", "4", "5", "6", "7", "8", "9"}

RECURSIVE get_blockdev_for_partition(_)
get_blockdev_for_partition(maybepart) ==
    IF maybepart # "" /\ Char(maybepart, Len(maybepart)) \in Digits
    THEN get_blockdev_for_partition(SubSeq(maybepart, 1, Len(maybepart) - 1))
    ELSE maybepart

\* get_block_devices without the step from a partition to its block device
get_block_devices_Partitions(devs) == {devs[i] : i \in 1..Len(devs)}

get_block_devices(devs) ==
    {get_blockdev_for_partition(devs[i]) : i \in 1..Len(devs)}

(***************************************************************************)
(* get_uefi_partition: the device path of the first entry of               *)
(* block._lsblock() labelled uefi-boot, or None.                           *)
(***************************************************************************)
IsUefiBoot(value) == value["LABEL"] = "uefi-boot"

get_uefi_partition(lsblock) ==
    LET found == SelectSeq(lsblock, IsUefiBoot) IN
    IF found = <<>> THEN None ELSE found[1]["device_path"]

(***************************************************************************)
(* The environment a run can meet.                                         *)
(***************************************************************************)
TargetPath == "/tmp/target"
FstabPath == "/tmp/fstab"

\* contents of /proc/cmdline
MainCmdlines ==
    {"BOOT_IMAGE=vmlinuz ro BOOTIF=01-aa-bb-cc-dd-ee-ff -- console=ttyS0 initrd=initrd.img quiet\n",
     "ro BOOTIF=01-AA-BB-CC-DD-EE-FF\n",
     "ro quiet -- console=ttyS0\n",
     "ro BOOTIF -- quiet\n"}

\* contents of the fstab file curtin hands over
FstabContents ==
    {"LABEL=root / ext4 defaults 0 0\n",
     "LABEL=root / ext4 defaults 0 0\r\n",
     "# r" \o NonAscii \o "sum" \o NonAscii \o "\n"}

\* results of block.get_devices_for_mp(target)
DevsForMp == {<<>>, <<"/dev/sda1">>, <<"/dev/sda1", "/dev/sda2", "/dev/sdb1">>}

\* values of block._lsblock(), in the order the dictionary yields them
LsBlocks ==
    {<<[LABEL |-> "root", device_path |-> "/dev/sda1"]>>,
     <<[LABEL |-> "root", device_path |-> "/dev/sda1"],
       [LABEL |-> "uefi-boot", device_path |-> "/dev/sda15"]>>}

\* /sys/class/net: <<iname, content of address>> in the order of os.listdir
SysNets ==
    {<< <<"lo", "00:00:00:00:00:00\n">> >>,
     << <<"lo", "00:00:00:00:00:00\n">>, <<"eth0", "aa:bb:cc:dd:ee:ff\n">> >>,
     << <<"eth1", "AA:BB:CC:DD:EE:FF\n">>, <<"eth0", "aa:bb:cc:dd:ee:00\n">> >>}

\* curtin_config['network']['config'] as load_config returns it: the key
\* may be absent (KeyError), the value null, or a list of entries
NetConfigValue(kind, list) == [kind |-> kind, list |-> list]

MainNetConfigs ==
    {NetConfigValue("nokey", <<>>),
     NetConfigValue("null", <<>>),
     NetConfigValue("list", <<>>),
     NetConfigValue("list",
         <<[type |-> "physical", name |-> "eth0",
            subnets |-> <<[type |-> "static", address |-> "10.0.0.5/24",
                           gateway |-> "10.0.0.1"]>>],
           [type |-> "nameserver"]>>),
     NetConfigValue("list",
         <<[type |-> "physical", name |-> "eth0",
            subnets |-> <<[type |-> "static", address |-> "10.0.0.5/24"]>>]>>)}

OldFstab == "/dev/old / ext3 defaults 0 0\n"
OldGrub == "GRUB_DEFAULT=saved\n"

(***************************************************************************)
(* CentOSBuilder (R33, src/mib/builders/centos.py): the builder object and *)
(* the parameters of the command line.                                     *)
(***************************************************************************)
Arches == {"i386", "amd64"}

\* --edition takes any string
Editions == {"", "5", "6", "7", "8", "6.5"}

Params == [edition : Editions, arch : Arches]
NoParams == [edition |-> None, arch |-> None]

\* the attributes build_image assigns, before any call of it: edition is not
\* set, install_location is "", the other two are as VirtInstallBuilder
\* leaves them
FreshBuilder ==
    [edition |-> None, install_location |-> "",
     extra_arguments |-> None, initrd_inject |-> None]

\* VirtInstallBuilder.get_contrib_path: the path of a file of contrib/
get_contrib_path(path) == "contrib/" \o path

\* validate_params without its check of edition 7 on i386
validate_params_EditionOnly(p) ==
    IF p.edition \notin {"6", "7"}
    THEN "Unknown CentOS edition: " \o p.edition \o "."
    ELSE None

\* None, or the message of the BuildError raised
validate_params(p) ==
    IF p.edition \notin {"6", "7"}
    THEN "Unknown CentOS edition: " \o p.edition \o "."
    ELSE IF p.edition = "7" /\ p.arch = "i386"
    THEN "Cannot generate CentOS 7 for i386, as only amd64 is supported."
    ELSE None

\* build_image from self.edition = params.edition to the call of the parent
configure(b, p) ==
    LET e == [b EXCEPT !.edition = p.edition] IN
    IF e.edition = "6"
    THEN IF p.arch = "i386"
         THEN [e EXCEPT
                 !.install_location = "http://mirror.centos.org/centos/6/os/i386",
                 !.extra_arguments = "console=ttyS0 ks=file:/centos6-i386.ks text utf8",
                 !.initrd_inject = get_contrib_path("centos6/centos6-i386.ks")]
         ELSE IF p.arch = "amd64"
         THEN [e EXCEPT
                 !.install_location = "http://mirror.centos.org/centos/6/os/x86_64",
                 !.extra_arguments = "console=ttyS0 ks=file:/centos6-amd64.ks text utf8",
                 !.initrd_inject = get_contrib_path("centos6/centos6-amd64.ks")]
         ELSE e
    ELSE IF e.edition = "7"
    THEN [e EXCEPT
            !.install_location = "http://mirror.centos.org/centos/7/os/x86_64",
            !.extra_arguments =
                "console=ttyS0 inst.ks=file:/centos7-amd64.ks text "
                \o "inst.cmdline inst.headless",
            !.initrd_inject = get_contrib_path("centos7/centos7-amd64.ks")]
    ELSE e

(***************************************************************************)
(* State.                                                                  *)
(***************************************************************************)
VARIABLES
    rev,          \* the revision that runs
    pc,           \* the statement of main (or of install_efi) to run next
    outcome,      \* "running", "exit0", "exit1" (sys.exit(1)), "uncaught"
    diag,         \* the diagnostic printed when the run ended
    log,          \* commands invoked, files written and install_efi called, in order
    target,       \* state['target']
    fstab,        \* state['fstab']
    uefi,         \* util.is_uefi_bootable()
    cmdline,      \* content of /proc/cmdline
    curtin_fstab, \* content of the file at state['fstab']
    mp_devs,      \* block.get_devices_for_mp(target)
    lsblock,      \* block._lsblock()
    sysnet,       \* /sys/class/net
    netcfg,       \* network config of the curtin config
    bootmac, devices, extra, uefi_part, todo, mount_flag, pending,
    files,        \* files under the target: path -> content
    underEFI,     \* the directory boot/efi of the target holds EFI
    partEFI,      \* the UEFI partition holds EFI
    yxp,          \* the directory yxp of the target exists
    tmpDir,       \* boot/efi_part exists
    tmpMounted,   \* the UEFI partition is mounted on boot/efi_part
    efiMounts,    \* stack of mounts on boot/efi: "pre" (found) or "hook"
    builder,      \* the CentOSBuilder object: the attributes build_image sets
    params,       \* the params of the build_image call under way
    entry,        \* the builder as that call found it
    iface, data,  \* the arguments of a call of get_ipv4_config
    config,       \* what that call returned
    default_extra \* the list that is the default of update_grub_default's extra

\* what no step of the hook changes: its environment, the image builder,
\* and what calls of its functions on their own work on
envVars ==
    <<rev, target, fstab, uefi, builder, params, entry, iface, data, config,
      default_extra>>
inVars == <<cmdline, curtin_fstab, mp_devs, lsblock, sysnet, netcfg>>
locVars == <<bootmac, devices, extra, uefi_part, todo, mount_flag, pending>>
fsVars == <<files, underEFI, partEFI, yxp, tmpDir, tmpMounted, efiMounts>>
ctlVars == <<pc, outcome, diag, log>>
vars == <<envVars, inVars, locVars, fsVars, ctlVars>>

NoNetConfig == NetConfigValue("unread", <<>>)
NoDevs == <<Unread>>

\* nothing read, nothing run yet
FreshControl == outcome = "running" /\ diag = "" /\ log = <<>>

FreshInputs ==
    /\ cmdline = Unread /\ curtin_fstab = Unread /\ mp_devs = NoDevs
    /\ lsblock = <<>> /\ sysnet = <<>> /\ netcfg = NoNetConfig

FreshLocals ==
    /\ bootmac = Unread /\ devices = {} /\ extra = <<>> /\ uefi_part = Unread
    /\ todo = {} /\ mount_flag = FALSE /\ pending = FALSE

FreshFiles ==
    /\ files = ("etc/fstab" :> OldFstab) @@ ("etc/default/grub" :> OldGrub)
    /\ tmpMounted = FALSE

\* no build_image call made
NoBuild == builder = FreshBuilder /\ params = NoParams /\ entry = FreshBuilder

\* no call of get_ipv4_config on its own
NoConfig == [raised |-> FALSE, text |-> ""]
NoIpv4Call == iface = None /\ data = EmptyDict /\ config = NoConfig

\* def update_grub_default(target, extra=[]): the default as the module
\* is loaded
FreshDefault == default_extra = <<>>

\* A run of main.  The target may hold yxp and boot/efi_part from an
\* earlier run, and curtin may have left the UEFI partition mounted on
\* boot/efi.
Init ==
    /\ rev \in Revisions
    /\ target \in {None, TargetPath}
    /\ fstab \in {None, FstabPath}
    /\ uefi \in BOOLEAN
    /\ underEFI \in BOOLEAN
    /\ partEFI \in BOOLEAN
    /\ yxp \in BOOLEAN
    /\ tmpDir \in BOOLEAN
    /\ efiMounts \in {<<>>, <<"pre">>}
    /\ pc = IF rev = "R46" THEN "tmp_dir_EFI_dir" ELSE "check_target"
    /\ FreshControl /\ FreshInputs /\ FreshLocals /\ FreshFiles
    /\ NoBuild /\ NoIpv4Call /\ FreshDefault

(***************************************************************************)
(* How a step ends.                                                        *)
(***************************************************************************)
Goto(next) == pc' = next /\ UNCHANGED <<outcome, diag>>

\* print(msg); sys.exit(1)
Exit1(msg) == pc' = "done" /\ outcome' = "exit1" /\ diag' = msg

\* an exception nobody catches: the interpreter prints the traceback and
\* the process ends with status 1
Uncaught == pc' = "done" /\ outcome' = "uncaught" /\ diag' = "Traceback"

Return0 == pc' = "done" /\ outcome' = "exit0" /\ UNCHANGED diag

ExitCode == IF outcome = "exit0" THEN 0 ELSE IF outcome = "running" THEN -1 ELSE 1

Event(op, arg, ok) == [op |-> op, arg |-> arg, ok |-> ok]
Logged(op, arg, ok) == log' = Append(log, Event(op, arg, ok))

EfiPart == "boot/efi_part"
EfiPath == "boot/efi"

\* os.path.exists(os.path.join(target, 'boot', 'efi', 'EFI'))
VisibleEFI == IF efiMounts # <<>> THEN partEFI ELSE underEFI

Pop(stack) == SubSeq(stack, 1, Len(stack) - 1)


(***************************************************************************)
(* The statements of main after its four checks, in the order main has     *)
(* them; R46 loads the curtin config before set_autorelabel.               *)
(***************************************************************************)
\* main_body with grub2_mkconfig called before update_grub_default
main_body_MkconfigFirst(r) ==
    <<"get_block_devices", "write_fstab", "grub2_mkconfig", "update_grub_default",
      "is_uefi_bootable">>
    \o (IF r = "R46" THEN <<"load_config">> ELSE <<>>)
    \o <<"set_autorelabel", "write_network_config">>

main_body(r) ==
    <<"get_block_devices", "write_fstab", "update_grub_default", "grub2_mkconfig",
      "is_uefi_bootable">>
    \o (IF r = "R46" THEN <<"load_config">> ELSE <<>>)
    \o <<"set_autorelabel", "write_network_config">>

\* the statement that follows stmt in main
After(r, stmt) ==
    LET body == main_body(r)
        i == CHOOSE k \in 1..Len(body) : body[k] = stmt
    IN  body[i + 1]

(***************************************************************************)
(* main, statement by statement.                                           *)
(***************************************************************************)
\* R46: print(target); tmp_dir_EFI_dir(target).  os.path.join(None, ...)
\* raises TypeError; copytree raises when yxp exists already.
TmpDirEFI ==
    /\ pc = "tmp_dir_EFI_dir"
    /\ IF target = None \/ (VisibleEFI /\ yxp)
       THEN Uncaught /\ UNCHANGED <<log, yxp>>
       ELSE IF VisibleEFI
            THEN yxp' = TRUE /\ Logged("copytree", "yxp", TRUE) /\ Goto("check_target")
            ELSE Goto("check_target") /\ UNCHANGED <<log, yxp>>
    /\ UNCHANGED <<envVars, inVars, locVars>>
    /\ UNCHANGED <<files, underEFI, partEFI, tmpDir, tmpMounted, efiMounts>>

CheckTarget ==
    /\ pc = "check_target"
    /\ IF target = None
       THEN Exit1("Target was not provided in the environment.")
       ELSE Goto("check_fstab")
    /\ UNCHANGED <<envVars, inVars, locVars, fsVars, log>>

\* CheckFstab without its sys.exit(1)
CheckFstab_NoExit ==
    /\ pc = "check_fstab"
    /\ Goto("get_boot_mac")
    /\ UNCHANGED <<envVars, inVars, locVars, fsVars, log>>

CheckFstab ==
    /\ pc = "check_fstab"
    /\ IF fstab = None
       THEN Exit1("/etc/fstab output was not provided in the environment.")
       ELSE Goto("get_boot_mac")
    /\ UNCHANGED <<envVars, inVars, locVars, fsVars, log>>

\* bootmac = get_boot_mac()
GetBootMac ==
    /\ pc = "get_boot_mac"
    /\ \E c \in MainCmdlines :
         /\ cmdline' = c
         /\ LET text == read_file(rev, c) IN
            IF text = Raised
            THEN Uncaught /\ UNCHANGED bootmac
            ELSE /\ bootmac' = get_boot_mac(text)
                 /\ IF bootmac' = Raised THEN Uncaught
                    ELSE IF bootmac' = None
                         THEN Exit1("Unable to determine boot interface.")
                         ELSE Goto("get_block_devices")
    /\ UNCHANGED <<envVars, curtin_fstab, mp_devs, lsblock, sysnet, netcfg, fsVars, log>>
    /\ UNCHANGED <<devices, extra, uefi_part, todo, mount_flag, pending>>

\* devices = get_block_devices(target)
GetBlockDevices ==
    /\ pc = "get_block_devices"
    /\ \E devs \in DevsForMp :
         /\ mp_devs' = devs
         /\ devices' = get_block_devices(devs)
         /\ IF devices' = {}
            THEN Exit1("Unable to find block device for: " \o target)
            ELSE Goto(After(rev, "get_block_devices"))
    /\ UNCHANGED <<envVars, cmdline, curtin_fstab, lsblock, sysnet, netcfg, fsVars, log>>
    /\ UNCHANGED <<bootmac, extra, uefi_part, todo, mount_flag, pending>>

\* write_fstab(target, fstab).  In R46 the text written is encoded for the
\* locale: text outside ASCII is written or raises UnicodeEncodeError after
\* the preamble, depending on the locale.
WriteFstab ==
    /\ pc = "write_fstab"
    /\ \E content \in FstabContents :
         /\ curtin_fstab' = content
         /\ LET fstab_data == read_file(rev, content) IN
            IF fstab_data = Raised
            THEN Uncaught /\ UNCHANGED <<files, log>>
            ELSE \E encodable \in {TRUE} \cup {IsAscii(fstab_data)} :
                   IF encodable
                   THEN /\ files' = [files EXCEPT !["etc/fstab"] =
                                        write_fstab(@, fstab_data, uefi)]
                        /\ Logged("write", "etc/fstab", TRUE)
                        /\ Goto(After(rev, "write_fstab"))
                   ELSE /\ files' = [files EXCEPT !["etc/fstab"] = FSTAB_PREPEND]
                        /\ Logged("write", "etc/fstab", FALSE)
                        /\ Uncaught
    /\ UNCHANGED <<envVars, cmdline, mp_devs, lsblock, sysnet, netcfg, locVars>>
    /\ UNCHANGED <<underEFI, partEFI, yxp, tmpDir, tmpMounted, efiMounts>>

\* update_grub_default(target, extra=get_extra_kernel_parameters());
\* extra is the list as the call leaves it
UpdateGrubDefault ==
    /\ pc = "update_grub_default"
    /\ LET passed == get_extra_kernel_parameters(read_file(rev, cmdline)) IN
         /\ extra' = grub_extra(rev, passed)
         /\ files' = [files EXCEPT !["etc/default/grub"] =
                         update_grub_default(rev, @, passed)]
    /\ Logged("write", "etc/default/grub", TRUE)
    /\ Goto(After(rev, "update_grub_default"))
    /\ UNCHANGED <<envVars, inVars>>
    /\ UNCHANGED <<bootmac, devices, uefi_part, todo, mount_flag, pending>>
    /\ UNCHANGED <<underEFI, partEFI, yxp, tmpDir, tmpMounted, efiMounts>>

\* grub2_mkconfig(target): the command may fail, which raises
Grub2Mkconfig ==
    /\ pc = "grub2_mkconfig"
    /\ \E ok \in BOOLEAN :
         /\ Logged("grub2-mkconfig", "/boot/grub2/grub.cfg", ok)
         /\ IF ok THEN Goto(After(rev, "grub2_mkconfig")) ELSE Uncaught
    /\ UNCHANGED <<envVars, inVars, locVars, fsVars>>

AfterBootloader == After(rev, "is_uefi_bootable")

\* if util.is_uefi_bootable(): uefi_part = get_uefi_partition() ...
\* else: for dev in devices
BootloaderBranch ==
    /\ pc = "is_uefi_bootable"
    /\ IF uefi
       THEN \E ls \in LsBlocks :
              /\ lsblock' = ls
              /\ uefi_part' = get_uefi_partition(ls)
              /\ IF uefi_part' = None
                 THEN Exit1("Unable to determine UEFI parition.") /\ UNCHANGED log
                 ELSE Logged("install_efi", uefi_part', TRUE) /\ Goto("efi_mount_tmp")
              /\ UNCHANGED todo
       ELSE /\ todo' = devices
            /\ Goto("grub2_install")
            /\ UNCHANGED <<lsblock, uefi_part, log>>
    /\ UNCHANGED <<envVars, cmdline, curtin_fstab, mp_devs, sysnet, netcfg, fsVars>>
    /\ UNCHANGED <<bootmac, devices, extra, mount_flag, pending>>

\* grub2_install(target, dev) for the next dev of the list made from the set
Grub2Install ==
    /\ pc = "grub2_install"
    /\ \E dev \in todo, ok \in BOOLEAN :
         /\ Logged("grub2-install --recheck", dev, ok)
         /\ todo' = todo \ {dev}
         /\ IF ~ok THEN Uncaught
            ELSE IF todo' = {} THEN Goto(AfterBootloader)
            ELSE Goto("grub2_install")
    /\ UNCHANGED <<envVars, inVars, fsVars>>
    /\ UNCHANGED <<bootmac, devices, extra, uefi_part, mount_flag, pending>>


(***************************************************************************)
(* install_efi(target, uefi_part['device_path']).  Each util.subp and each *)
(* command run in the chroot may fail, which raises.  An umount of a       *)
(* directory nothing is mounted on fails.                                  *)
(***************************************************************************)
\* os.mkdir(tmp_efi); util.subp(['mount', uefi_path, tmp_efi])
EfiMountTmp ==
    /\ pc = "efi_mount_tmp"
    /\ IF tmpDir
       THEN Uncaught /\ UNCHANGED <<log, tmpDir, tmpMounted>>
       ELSE /\ tmpDir' = TRUE
            /\ \E ok \in BOOLEAN :
                 /\ Logged("mount", EfiPart, ok)
                 /\ tmpMounted' = ok
                 /\ IF ok THEN Goto("efi_copy") ELSE Uncaught
    /\ UNCHANGED <<envVars, inVars, locVars>>
    /\ UNCHANGED <<files, underEFI, partEFI, yxp, efiMounts>>

\* what the copy takes as its source, once tmp_efi/EFI has been removed:
\* boot/efi/EFI, which is gone too when the partition is mounted on boot/efi
CopySourceExists(r, efiVisible, yxpExists) ==
    IF r = "R33" THEN efiVisible ELSE (efiVisible \/ yxpExists)

\* the try block: rmtree(tmp_efi/EFI) if it exists, then copytree
EfiCopy ==
    /\ pc = "efi_copy"
    /\ LET efiVisible == IF efiMounts # <<>> THEN FALSE ELSE underEFI
           ok == CopySourceExists(rev, efiVisible, yxp)
       IN  /\ partEFI' = ok
           /\ pending' = ~ok
           /\ Logged("copytree", "boot/efi_part/EFI", ok)
    /\ Goto("efi_umount_tmp")
    /\ UNCHANGED <<envVars, inVars>>
    /\ UNCHANGED <<bootmac, devices, extra, uefi_part, todo, mount_flag>>
    /\ UNCHANGED <<files, underEFI, yxp, tmpDir, tmpMounted, efiMounts>>

\* EfiUmountTmp with the umount after the try block instead of in its finally
EfiUmountTmp_NotInFinally ==
    /\ pc = "efi_umount_tmp"
    /\ IF pending
       THEN Uncaught /\ UNCHANGED <<log, tmpMounted, tmpDir>>
       ELSE \E ok \in BOOLEAN :
              /\ Logged("umount", EfiPart, ok)
              /\ tmpMounted' = ~ok
              /\ tmpDir' = ~ok
              /\ IF ~ok THEN Uncaught ELSE Goto("efi_mount")
    /\ pending' = FALSE
    /\ UNCHANGED <<envVars, inVars>>
    /\ UNCHANGED <<bootmac, devices, extra, uefi_part, todo, mount_flag>>
    /\ UNCHANGED <<files, underEFI, partEFI, yxp, efiMounts>>

\* finally: util.subp(['umount', tmp_efi]); os.rmdir(tmp_efi)
EfiUmountTmp ==
    /\ pc = "efi_umount_tmp"
    /\ \E ok \in BOOLEAN :
         /\ Logged("umount", EfiPart, ok)
         /\ tmpMounted' = ~ok
         /\ tmpDir' = ~ok
         /\ IF ~ok \/ pending THEN Uncaught ELSE Goto("efi_mount")
    /\ pending' = FALSE
    /\ UNCHANGED <<envVars, inVars>>
    /\ UNCHANGED <<bootmac, devices, extra, uefi_part, todo, mount_flag>>
    /\ UNCHANGED <<files, underEFI, partEFI, yxp, efiMounts>>

\* R33: util.subp(['mount', uefi_path, efi_path]), outside any try.
\* R46: mount_flag = True; try: the same mount
EfiMount ==
    /\ pc = "efi_mount"
    /\ mount_flag' = (rev = "R46")
    /\ \E ok \in BOOLEAN :
         /\ Logged("mount", EfiPath, ok)
         /\ efiMounts' = IF ok THEN Append(efiMounts, "hook") ELSE efiMounts
         /\ IF ok THEN Goto(IF rev = "R46" THEN "check_efi_dir" ELSE "efi_grub_install")
            ELSE IF rev = "R46" THEN Goto("efi_retry_umount")
            ELSE Uncaught
    /\ UNCHANGED <<envVars, inVars>>
    /\ UNCHANGED <<bootmac, devices, extra, uefi_part, todo, pending>>
    /\ UNCHANGED <<files, underEFI, partEFI, yxp, tmpDir, tmpMounted>>

\* R46, except: try: util.subp(['umount', efi_path]) ...
\* except: mount_flag = False
EfiRetryUmount ==
    /\ pc = "efi_retry_umount"
    /\ \E ok \in {FALSE} \cup {efiMounts # <<>>} :
         /\ Logged("umount", EfiPath, ok)
         /\ efiMounts' = IF ok THEN Pop(efiMounts) ELSE efiMounts
         /\ mount_flag' = IF ok THEN mount_flag ELSE FALSE
         /\ Goto(IF ok THEN "efi_retry_mount" ELSE "check_efi_dir")
    /\ UNCHANGED <<envVars, inVars>>
    /\ UNCHANGED <<bootmac, devices, extra, uefi_part, todo, pending>>
    /\ UNCHANGED <<files, underEFI, partEFI, yxp, tmpDir, tmpMounted>>

\* R46: ... util.subp(['mount', uefi_path, efi_path]) except: mount_flag = False
EfiRetryMount ==
    /\ pc = "efi_retry_mount"
    /\ \E ok \in BOOLEAN :
         /\ Logged("mount", EfiPath, ok)
         /\ efiMounts' = IF ok THEN Append(efiMounts, "hook") ELSE efiMounts
         /\ mount_flag' = IF ok THEN mount_flag ELSE FALSE
    /\ Goto("check_efi_dir")
    /\ UNCHANGED <<envVars, inVars>>
    /\ UNCHANGED <<bootmac, devices, extra, uefi_part, todo, pending>>
    /\ UNCHANGED <<files, underEFI, partEFI, yxp, tmpDir, tmpMounted>>

\* os.path.exists(os.path.join(target, "boot", "efi", "EFI")), as check_efi_dir
\* returns it
check_efi_dir == VisibleEFI

\* R46: if not check_efi_dir(target): copytree(target/yxp, efi_path/EFI),
\* outside any try
CheckEfiDir ==
    /\ pc = "check_efi_dir"
    /\ IF check_efi_dir
       THEN Goto("efi_grub_install") /\ UNCHANGED <<log, underEFI, partEFI>>
       ELSE /\ Logged("copytree", "boot/efi/EFI", yxp)
            /\ IF yxp
               THEN /\ Goto("efi_grub_install")
                    /\ IF efiMounts # <<>>
                       THEN partEFI' = TRUE /\ UNCHANGED underEFI
                       ELSE underEFI' = TRUE /\ UNCHANGED partEFI
               ELSE Uncaught /\ UNCHANGED <<underEFI, partEFI>>
    /\ UNCHANGED <<envVars, inVars, locVars>>
    /\ UNCHANGED <<files, yxp, tmpDir, tmpMounted, efiMounts>>

\* try: in_chroot(['grub2-install', '--target=x86_64-efi', ...])
EfiGrubInstall ==
    /\ pc = "efi_grub_install"
    /\ \E ok \in BOOLEAN :
         /\ Logged("grub2-install --target=x86_64-efi", "/boot/efi", ok)
         /\ pending' = ~ok
    /\ Goto("efi_final_umount")
    /\ UNCHANGED <<envVars, inVars, fsVars>>
    /\ UNCHANGED <<bootmac, devices, extra, uefi_part, todo, mount_flag>>

\* FinalUmountIssued without the test of mount_flag
FinalUmountIssued_Always(r, flag) == TRUE

\* whether the finally block of the grub install issues the umount
FinalUmountIssued(r, flag) == r = "R33" \/ flag

\* finally: R33 util.subp(['umount', efi_path]); R46 the same if mount_flag
EfiFinalUmount ==
    /\ pc = "efi_final_umount"
    /\ IF FinalUmountIssued(rev, mount_flag)
       THEN \E ok \in {FALSE} \cup {efiMounts # <<>>} :
              /\ Logged("umount", EfiPath, ok)
              /\ efiMounts' = IF ok THEN Pop(efiMounts) ELSE efiMounts
              /\ IF ~ok \/ pending THEN Uncaught ELSE Goto(AfterBootloader)
       ELSE /\ UNCHANGED <<log, efiMounts>>
            /\ IF pending THEN Uncaught ELSE Goto(AfterBootloader)
    /\ pending' = FALSE
    /\ UNCHANGED <<envVars, inVars>>
    /\ UNCHANGED <<bootmac, devices, extra, uefi_part, todo, mount_flag>>
    /\ UNCHANGED <<files, underEFI, partEFI, yxp, tmpDir, tmpMounted>>

(***************************************************************************)
(* The end of main.                                                        *)
(***************************************************************************)
\* R46: network_config = get_nertwork_config(load_config(state['config']))
LoadConfig ==
    /\ pc = "load_config"
    /\ \E nc \in MainNetConfigs :
         /\ netcfg' = nc
         /\ IF nc.kind = "nokey" THEN Uncaught ELSE Goto(After(rev, "load_config"))
    /\ UNCHANGED <<envVars, cmdline, curtin_fstab, mp_devs, lsblock, sysnet>>
    /\ UNCHANGED <<locVars, fsVars, log>>

\* open(path, 'a').close()
set_autorelabel(fs) ==
    IF ".autorelabel" \in DOMAIN fs THEN fs ELSE (".autorelabel" :> "") @@ fs

SetAutorelabel ==
    /\ pc = "set_autorelabel"
    /\ files' = set_autorelabel(files)
    /\ Logged("write", ".autorelabel", TRUE)
    /\ Goto(After(rev, "set_autorelabel"))
    /\ UNCHANGED <<envVars, inVars, locVars>>
    /\ UNCHANGED <<underEFI, partEFI, yxp, tmpDir, tmpMounted, efiMounts>>

\* write_network_config(target, bootmac[, network_config]); main ends
WriteNetworkConfig ==
    /\ pc = "write_network_config"
    /\ \E listing \in SysNets :
         /\ sysnet' = listing
         /\ LET w == write_network_config(rev, listing, bootmac, netcfg) IN
            IF w.raised
            THEN Uncaught /\ UNCHANGED <<files, log>>
            ELSE /\ files' = (w.path :> w.text) @@ files
                 /\ Logged("write", w.path, TRUE)
                 /\ Return0
    /\ UNCHANGED <<envVars, cmdline, curtin_fstab, mp_devs, lsblock, netcfg, locVars>>
    /\ UNCHANGED <<underEFI, partEFI, yxp, tmpDir, tmpMounted, efiMounts>>

Next ==
    \/ TmpDirEFI \/ CheckTarget \/ CheckFstab \/ GetBootMac \/ GetBlockDevices
    \/ WriteFstab \/ UpdateGrubDefault \/ Grub2Mkconfig \/ BootloaderBranch
    \/ Grub2Install
    \/ EfiMountTmp \/ EfiCopy \/ EfiUmountTmp \/ EfiMount \/ EfiRetryUmount
    \/ EfiRetryMount \/ CheckEfiDir \/ EfiGrubInstall \/ EfiFinalUmount
    \/ LoadConfig \/ SetAutorelabel \/ WriteNetworkConfig


Spec == Init /\ [][Next]_vars

(***************************************************************************)
(* get_boot_mac and get_extra_kernel_parameters called on their own, on    *)
(* every command line of at most MaxTokens tokens.                         *)
(***************************************************************************)
MaxTokens == 3

Tokens ==
    {"ro", "--", "BOOTIF=01-aa-bb-cc-dd-ee-ff", "BOOTIF=02-11-22", "BOOTIF",
     "BOOTIF=a=b", "initrd=x", "BOOT_IMAGE=y", "xBOOTIF=1"}

TokenLists == UNION {[1..n -> Tokens] : n \in 0..MaxTokens}

Cmdlines == {Join(l, " ") \o "\n" : l \in TokenLists}

QuietTarget ==
    /\ target = TargetPath /\ fstab = FstabPath /\ uefi = FALSE
    /\ underEFI = FALSE /\ partEFI = FALSE /\ yxp = FALSE /\ tmpDir = FALSE
    /\ efiMounts = <<>>
    /\ NoBuild /\ NoIpv4Call /\ FreshDefault

InitCmdline ==
    /\ rev \in Revisions
    /\ QuietTarget
    /\ pc = "call"
    /\ cmdline \in Cmdlines
    /\ curtin_fstab = Unread /\ mp_devs = NoDevs /\ lsblock = <<>>
    /\ sysnet = <<>> /\ netcfg = NoNetConfig
    /\ FreshControl /\ FreshLocals /\ FreshFiles

CallGetBootMac ==
    /\ pc = "call"
    /\ bootmac' = get_boot_mac(read_file(rev, cmdline))
    /\ Goto("get_boot_mac returned")
    /\ UNCHANGED <<envVars, inVars, fsVars, log>>
    /\ UNCHANGED <<devices, extra, uefi_part, todo, mount_flag, pending>>

CallGetExtraKernelParameters ==
    /\ pc = "call"
    /\ extra' = get_extra_kernel_parameters(read_file(rev, cmdline))
    /\ Goto("get_extra_kernel_parameters returned")
    /\ UNCHANGED <<envVars, inVars, fsVars, log>>
    /\ UNCHANGED <<bootmac, devices, uefi_part, todo, mount_flag, pending>>

NextCmdline == CallGetBootMac \/ CallGetExtraKernelParameters

SpecCmdline == InitCmdline /\ [][NextCmdline]_vars

(***************************************************************************)
(* write_network_config called on its own, as main calls it last, on       *)
(* every network config of at most MaxEntries entries.                     *)
(***************************************************************************)
MaxEntries == 2

SubnetLists ==
    {<<>>,
     <<[type |-> "static", address |-> "10.0.0.5/24", gateway |-> "10.0.0.1"]>>,
     <<[type |-> "static", address |-> "10.0.1.7", gateway |-> "10.0.1.1"]>>,
     <<[type |-> "static", address |-> "10.0.2.9/24"]>>,
     <<[type |-> "dhcp"]>>,
     <<[type |-> "static", address |-> "10.0.0.5/24", gateway |-> "10.0.0.1"],
       [type |-> "static", address |-> "10.0.3.3/24", gateway |-> "10.0.3.1"]>>}

NetEntries ==
    {[type |-> "physical", name |-> n, subnets |-> sl] :
         n \in {"eth0", "eth1"}, sl \in SubnetLists}
    \cup {[type |-> "physical", name |-> n] : n \in {"eth0", "eth1"}}
    \cup {[type |-> "nameserver"]}

NetConfigs ==
    {NetConfigValue("null", <<>>)}
    \cup {NetConfigValue("list", l) :
              l \in UNION {[1..n -> NetEntries] : n \in 0..MaxEntries}}

InitNet ==
    /\ rev \in Revisions
    /\ QuietTarget
    /\ pc = "write_network_config"
    /\ bootmac \in {"aa:bb:cc:dd:ee:ff", "AA:BB:CC:DD:EE:FF"}
    /\ netcfg \in NetConfigs
    /\ cmdline = Unread /\ curtin_fstab = Unread /\ mp_devs = NoDevs
    /\ lsblock = <<>> /\ sysnet = <<>>
    /\ devices = {} /\ extra = <<>> /\ uefi_part = Unread
    /\ todo = {} /\ mount_flag = FALSE /\ pending = FALSE
    /\ FreshControl /\ FreshFiles

SpecNet == InitNet /\ [][WriteNetworkConfig]_vars

(***************************************************************************)
(* CentOSBuilder.build_image called on a builder object, any number of     *)
(* times: validate_params, then the assignments, then the build_image of   *)
(* VirtInstallBuilder, which returns or raises.                            *)
(***************************************************************************)
QuietHook ==
    /\ rev = "R33"
    /\ target = TargetPath /\ fstab = FstabPath /\ uefi = FALSE
    /\ underEFI = FALSE /\ partEFI = FALSE /\ yxp = FALSE /\ tmpDir = FALSE
    /\ efiMounts = <<>>
    /\ FreshInputs /\ FreshLocals /\ FreshFiles

InitBuild ==
    /\ QuietHook
    /\ NoBuild /\ NoIpv4Call /\ FreshDefault
    /\ pc = "build_image"
    /\ FreshControl

hookVars ==
    <<rev, target, fstab, uefi, inVars, locVars, fsVars, log, iface, data, config,
      default_extra>>

\* build_image(params) is called
CallBuildImage ==
    /\ pc = "build_image"
    /\ \E p \in Params : params' = p
    /\ entry' = builder
    /\ pc' = "validate_params" /\ outcome' = "running" /\ diag' = ""
    /\ UNCHANGED <<builder, hookVars>>

\* self.validate_params(params): a BuildError ends build_image
ValidateParams ==
    /\ pc = "validate_params"
    /\ LET err == validate_params(params) IN
       IF err = None
       THEN pc' = "configure" /\ UNCHANGED <<outcome, diag>>
       ELSE pc' = "build_image" /\ outcome' = "BuildError" /\ diag' = err
    /\ UNCHANGED <<builder, params, entry, hookVars>>

Configure ==
    /\ pc = "configure"
    /\ builder' = configure(builder, params)
    /\ pc' = "super.build_image"
    /\ UNCHANGED <<outcome, diag, params, entry, hookVars>>

\* super(CentOSBuilder, self).build_image(params)
SuperBuildImage ==
    /\ pc = "super.build_image"
    /\ \E ok \in BOOLEAN :
         /\ outcome' = IF ok THEN "returned" ELSE "BuildError"
         /\ diag' = IF ok THEN "" ELSE "virt-install"
    /\ pc' = "build_image"
    /\ UNCHANGED <<builder, params, entry, hookVars>>

NextBuild == CallBuildImage \/ ValidateParams \/ Configure \/ SuperBuildImage

SpecBuild == InitBuild /\ [][NextBuild]_vars

(***************************************************************************)
(* get_ipv4_config called on its own, on every interface description that  *)
(* holds auto and method and any of the optional keys.                     *)
(***************************************************************************)
Methods == {"dhcp", "static", "manual", "loopback"}

OptionalValues ==
    [hwaddress |-> "AA:BB:CC:DD:EE:FF", hostname |-> "node1",
     address |-> "10.0.0.5", netmask |-> "255.255.255.0",
     broadcast |-> "10.0.0.255", gateway |-> "10.0.0.1"]

Descriptions ==
    {[auto |-> a, method |-> m] @@ [k \in K |-> OptionalValues[k]] :
         a \in BOOLEAN, m \in Methods, K \in SUBSET DOMAIN OptionalValues}

InitIpv4 ==
    /\ rev \in Revisions
    /\ target = TargetPath /\ fstab = FstabPath /\ uefi = FALSE
    /\ underEFI = FALSE /\ partEFI = FALSE /\ yxp = FALSE /\ tmpDir = FALSE
    /\ efiMounts = <<>>
    /\ FreshInputs /\ FreshLocals /\ FreshFiles /\ FreshControl
    /\ NoBuild /\ FreshDefault
    /\ pc = "call"
    /\ iface \in {"eth0"}
    /\ data \in Descriptions
    /\ config = NoConfig

CallGetIpv4Config ==
    /\ pc = "call"
    /\ config' = get_ipv4_config(rev, iface, data)
    /\ Goto("get_ipv4_config returned")
    /\ UNCHANGED <<rev, target, fstab, uefi, builder, params, entry, iface, data,
                   default_extra>>
    /\ UNCHANGED <<inVars, locVars, fsVars, log>>

SpecIpv4 == InitIpv4 /\ [][CallGetIpv4Config]_vars

(***************************************************************************)
(* update_grub_default called on its own, at most MaxCalls times in one    *)
(* process, with a list of at most MaxExtra parameters that the caller     *)
(* keeps, or with no extra, which takes the default: the one list object   *)
(* made when the def statement ran.  list.append changes the list given.   *)
(***************************************************************************)
MaxCalls == 3
MaxExtra == 2

ExtraLists == UNION {[1..n -> {"console=ttyS0", "quiet"}] : n \in 0..MaxExtra}

InitGrub ==
    /\ rev \in Revisions
    /\ target = TargetPath /\ fstab = FstabPath /\ uefi = FALSE
    /\ underEFI = FALSE /\ partEFI = FALSE /\ yxp = FALSE /\ tmpDir = FALSE
    /\ efiMounts = <<>>
    /\ FreshInputs /\ FreshFiles /\ FreshControl
    /\ NoBuild /\ NoIpv4Call /\ FreshDefault
    /\ pc = "call"
    /\ extra \in ExtraLists
    /\ bootmac = Unread /\ devices = {} /\ uefi_part = Unread
    /\ todo = {} /\ mount_flag = FALSE /\ pending = FALSE

\* update_grub_default(target, extra=extra)
CallUpdateGrubDefault ==
    /\ pc = "call" /\ Len(log) < MaxCalls
    /\ files' = [files EXCEPT !["etc/default/grub"] =
                    update_grub_default(rev, @, extra)]
    /\ extra' = grub_extra(rev, extra)
    /\ Logged("update_grub_default", "extra", TRUE)
    /\ UNCHANGED <<envVars, inVars, pc, outcome, diag>>
    /\ UNCHANGED <<bootmac, devices, uefi_part, todo, mount_flag, pending>>
    /\ UNCHANGED <<underEFI, partEFI, yxp, tmpDir, tmpMounted, efiMounts>>

\* update_grub_default(target)
CallUpdateGrubDefaultNoExtra ==
    /\ pc = "call" /\ Len(log) < MaxCalls
    /\ files' = [files EXCEPT !["etc/default/grub"] =
                    update_grub_default(rev, @, default_extra)]
    /\ default_extra' = grub_extra(rev, default_extra)
    /\ Logged("update_grub_default", "default", TRUE)
    /\ UNCHANGED <<rev, target, fstab, uefi, builder, params, entry, iface, data,
                   config>>
    /\ UNCHANGED <<inVars, locVars, pc, outcome, diag>>
    /\ UNCHANGED <<underEFI, partEFI, yxp, tmpDir, tmpMounted, efiMounts>>

NextGrub == CallUpdateGrubDefault \/ CallUpdateGrubDefaultNoExtra

SpecGrub == InitGrub /\ [][NextGrub]_vars

(***************************************************************************)
(* What the claims speak of, stated from the run's inputs and its log.     *)
(***************************************************************************)
Done == pc = "done"

CmdlineTokens == SplitWs(cmdline)

SomeBootifToken == \E i \in 1..Len(CmdlineTokens) : StartsWith(CmdlineTokens[i], "BOOTIF")

TargetMissing == target = None
FstabMissing == fstab = None
NoBootMac == cmdline # Unread /\ ~SomeBootifToken
NoBlockDevice == mp_devs = <<>>
NoUefiPartition ==
    uefi /\ lsblock # <<>> /\ \A i \in 1..Len(lsblock) : lsblock[i]["LABEL"] # "uefi-boot"

\* the interfaces whose address is the boot MAC, compared without case
BootInterfaces ==
    {sysnet[i][1] : i \in {k \in 1..Len(sysnet) :
                               Lower(Strip(sysnet[k][2])) = Lower(bootmac)}}

NoBootInterface == sysnet # <<>> /\ BootInterfaces = {}

ListedFailure ==
    \/ TargetMissing \/ FstabMissing \/ NoBootMac \/ NoBlockDevice
    \/ NoUefiPartition \/ NoBootInterface

\* the positions of the log that hold the command or write op on arg
Events(op, arg) == {i \in 1..Len(log) : log[i].op = op /\ log[i].arg = arg}
EventsOf(op) == {i \in 1..Len(log) : log[i].op = op}

(***************************************************************************)
(* C1 as claimed: main ends with exit code 1, after a diagnostic, in every *)
(* run with a missing target, a missing fstab path, no boot MAC, no block  *)
(* device, no uefi-boot partition in UEFI mode or no interface with the    *)
(* boot MAC, and with exit code 0 in every other run.                      *)
(***************************************************************************)
C1_ExitOneOnlyWhenListed ==
    Done => IF ListedFailure THEN ExitCode = 1 /\ diag # "" ELSE ExitCode = 0

(***************************************************************************)
(* C1 amended: main ends with exit code 1, after a message or a traceback, *)
(* in every listed case; in a run with none of them it never calls         *)
(* sys.exit(1), and it ends with exit code 0 unless an exception escapes   *)
(* main, which ends the run with a traceback and exit code 1.              *)
(***************************************************************************)
C1_ExitCodes ==
    Done => /\ ListedFailure => (ExitCode = 1 /\ diag # "")
            /\ ~ListedFailure => /\ outcome # "exit1"
                                 /\ (ExitCode = 0 <=> outcome # "uncaught")

\* a run that sys.exit(1) ends for want of a block device
C1_Witness ==
    /\ Done /\ NoBlockDevice /\ outcome = "exit1"
    /\ diag = "Unable to find block device for: " \o TargetPath

(***************************************************************************)
(* install_efi in the log: it has started once it has issued its first     *)
(* mount, and it has ended when main is past it or has ended.              *)
(***************************************************************************)
EfiPcs ==
    {"efi_mount_tmp", "efi_copy", "efi_umount_tmp", "efi_mount", "efi_retry_umount",
     "efi_retry_mount", "check_efi_dir", "efi_grub_install", "efi_final_umount"}

InstallEfiStarted == Events("mount", EfiPart) # {}
InstallEfiEnded == InstallEfiStarted /\ pc \notin EfiPcs

MountPoints == {EfiPart, EfiPath}

HookMountOn(m) ==
    IF m = EfiPart THEN tmpMounted
    ELSE \E i \in 1..Len(efiMounts) : efiMounts[i] = "hook"

(***************************************************************************)
(* C2 as claimed: when install_efi ends, by return or by an exception, no  *)
(* mount it made remains.                                                  *)
(***************************************************************************)
C2_NoMountRemains ==
    InstallEfiEnded => \A m \in MountPoints : ~HookMountOn(m)

(***************************************************************************)
(* C2 amended: when install_efi ends, by return or by an exception, each   *)
(* successful mount it made is followed by an umount command for the same  *)
(* mount point, and the mount is gone if that umount succeeded.            *)
(***************************************************************************)
C2_UmountFollowsMount ==
    InstallEfiEnded =>
        \A i \in 1..Len(log) :
            (log[i].op = "mount" /\ log[i].ok) =>
                \E k \in Events("umount", log[i].arg) :
                    /\ k > i
                    /\ log[k].ok => ~HookMountOn(log[i].arg)

\* install_efi ended by the exception of a failed grub2-install after both
\* mounts succeeded and both umounts were issued
C2_Witness ==
    /\ InstallEfiEnded /\ outcome = "uncaught"
    /\ \E g \in EventsOf("grub2-install --target=x86_64-efi") :
         /\ ~log[g].ok
         /\ \E i \in Events("mount", EfiPath) : i < g /\ log[i].ok
         /\ \E k \in Events("umount", EfiPath) : k > g /\ log[k].ok
    /\ \E i \in Events("mount", EfiPart) : log[i].ok
    /\ \A m \in MountPoints : ~HookMountOn(m)

(***************************************************************************)
(* C3 as claimed: once write_fstab has returned, etc/fstab of the target   *)
(* is FSTAB_PREPEND, then the supplied fstab content unchanged, then the   *)
(* uefi-boot line exactly when the machine is UEFI bootable, and nothing   *)
(* of what the file held before.                                           *)
(***************************************************************************)
FstabWritten == \E i \in Events("write", "etc/fstab") : log[i].ok

C3_FstabIsPreambleThenContent ==
    FstabWritten =>
        files["etc/fstab"] =
            FSTAB_PREPEND \o curtin_fstab \o (IF uefi THEN FSTAB_UEFI ELSE "")

(***************************************************************************)
(* The extra kernel parameters as the claims describe them: the tokens     *)
(* after the first "--" that start with none of initrd=, BOOT_IMAGE=,      *)
(* BOOTIF=, in their order; none when no token is "--".                    *)
(***************************************************************************)
Kept(token) ==
    /\ ~StartsWith(token, "initrd=")
    /\ ~StartsWith(token, "BOOT_IMAGE=")
    /\ ~StartsWith(token, "BOOTIF=")

ExpectedExtras(tokens) ==
    LET seps == {i \in 1..Len(tokens) : tokens[i] = "--"} IN
    IF seps = {} THEN <<>>
    ELSE LET first == CHOOSE i \in seps : \A k \in seps : i <= k
         IN  SelectSeq(SubSeq(tokens, first + 1, Len(tokens)), Kept)

GrubAppended(value) ==
    OldGrub \o GRUB_PREPEND \o "GRUB_CMDLINE_LINUX=\"" \o value \o "\"\n"

GrubWritten == Events("write", "etc/default/grub") # {}

(***************************************************************************)
(* C4 as claimed: once a run has updated etc/default/grub, the file is     *)
(* what it was, then GRUB_PREPEND, then one GRUB_CMDLINE_LINUX line whose  *)
(* value is the space-joined extra kernel parameters and nothing else.     *)
(***************************************************************************)
C4_GrubValueIsExtrasOnly ==
    GrubWritten =>
        files["etc/default/grub"] = GrubAppended(Join(ExpectedExtras(CmdlineTokens), " "))

(***************************************************************************)
(* C4 amended: each run that gets past the four checks and write_fstab     *)
(* appends GRUB_PREPEND and one GRUB_CMDLINE_LINUX line whose value is the *)
(* space-joined extra kernel parameters, followed in R46 by fsck.mode=skip *)
(* and rootfstype=ext4; a run that ends before that appends nothing.       *)
(***************************************************************************)
C4_GrubValue ==
    IF GrubWritten
    THEN files["etc/default/grub"] =
             GrubAppended(Join(ExpectedExtras(CmdlineTokens)
                               \o (IF rev = "R46"
                                   THEN <<"fsck.mode=skip", "rootfstype=ext4">>
                                   ELSE <<>>), " "))
    ELSE files["etc/default/grub"] = OldGrub

\* both revisions have appended the line for a command line with "--" and
\* tokens to strip after it
C4_Witness ==
    /\ GrubWritten
    /\ \E i \in 1..Len(CmdlineTokens) : CmdlineTokens[i] = "initrd=initrd.img"
    /\ \/ /\ rev = "R46"
          /\ files["etc/default/grub"] =
                 GrubAppended("console=ttyS0 quiet fsck.mode=skip rootfstype=ext4")
       \/ /\ rev = "R33"
          /\ files["etc/default/grub"] = GrubAppended("console=ttyS0 quiet")

(***************************************************************************)
(* The boot MAC as the claim describes it: of the first token that starts  *)
(* with BOOTIF, the value after "=", without its first hyphen-separated    *)
(* field, the hyphens between the other fields turned into colons.         *)
(***************************************************************************)
BootifTokens == SelectSeq(CmdlineTokens, LAMBDA t : StartsWith(t, "BOOTIF"))

CountOf(s, c) == Cardinality({i \in 1..Len(s) : Char(s, i) = c})

HyphensToColons == ("-" :> ":")

ExpectedMac(token) ==
    LET eq == FindFrom(token, "=", 1)
        value == SubSeq(token, eq + 1, Len(token))
        hyphen == FindFrom(value, "-", 1)
    IN  IF hyphen = 0 THEN ""
        ELSE MapChars(SubSeq(value, hyphen + 1, Len(value)), HyphensToColons)

GetBootMacReturned == pc = "get_boot_mac returned"

(***************************************************************************)
(* C5 as claimed: get_boot_mac returns None exactly when no token starts   *)
(* with BOOTIF; otherwise it returns the MAC of the first such token and   *)
(* never fails.                                                            *)
(***************************************************************************)
C5_NeverFailsOnBootif ==
    GetBootMacReturned =>
        IF BootifTokens = <<>> THEN bootmac = None
        ELSE bootmac # None /\ bootmac # Raised /\ bootmac = ExpectedMac(BootifTokens[1])

(***************************************************************************)
(* C5 amended: get_boot_mac returns None exactly when no token starts with *)
(* BOOTIF; otherwise it takes the first such token: it raises (ValueError) *)
(* when that token does not hold exactly one "=", and else returns the     *)
(* token's value without its first hyphen-separated field, the remaining   *)
(* fields joined with colons.                                              *)
(***************************************************************************)
C5_BootMac ==
    GetBootMacReturned =>
        /\ bootmac = None <=> BootifTokens = <<>>
        /\ BootifTokens # <<>> =>
               IF CountOf(BootifTokens[1], "=") # 1 THEN bootmac = Raised
               ELSE bootmac = ExpectedMac(BootifTokens[1])
        /\ cmdline = "BOOTIF=01-aa-bb-cc-dd-ee-ff\n" => bootmac = "aa:bb:cc:dd:ee:ff"

\* the MAC of the first of two BOOTIF tokens
C5_Witness ==
    /\ GetBootMacReturned
    /\ cmdline = "ro BOOTIF=01-aa-bb-cc-dd-ee-ff BOOTIF=02-11-22\n"
    /\ bootmac = "aa:bb:cc:dd:ee:ff"

(***************************************************************************)
(* C6: get_extra_kernel_parameters returns the empty list when no token is *)
(* "--"; when one is, it returns, in their order, exactly the tokens after *)
(* the first "--" that start with none of initrd=, BOOT_IMAGE=, BOOTIF=.   *)
(***************************************************************************)
GetExtraReturned == pc = "get_extra_kernel_parameters returned"

C6_ExtraKernelParameters ==
    GetExtraReturned =>
        /\ extra = ExpectedExtras(CmdlineTokens)
        /\ (\A i \in 1..Len(CmdlineTokens) : CmdlineTokens[i] # "--") => extra = <<>>
        /\ (CmdlineTokens # <<>> /\ CmdlineTokens[Len(CmdlineTokens)] = "--"
            /\ \A i \in 1..(Len(CmdlineTokens) - 1) : CmdlineTokens[i] # "--")
               => extra = <<>>

\* a token to strip and one to keep after the "--"
C6_Witness ==
    /\ GetExtraReturned
    /\ cmdline = "-- initrd=x ro\n"
    /\ extra = <<"ro">>

(***************************************************************************)
(* The network config as the claims describe it.                           *)
(***************************************************************************)
\* the name get_interface_names gives for the boot MAC: of the interfaces
\* that carry it, the one os.listdir yields last
BootInterface ==
    LET carriers == {k \in 1..Len(sysnet) : Lower(Strip(sysnet[k][2])) = Lower(bootmac)}
    IN  sysnet[CHOOSE k \in carriers : \A m \in carriers : m <= k][1]

ConfigList == netcfg.list

\* the entries of the config whose name is the boot interface's
Matching ==
    {i \in 1..Len(ConfigList) :
        Has(ConfigList[i], "name") /\ ConfigList[i]["name"] = BootInterface}

WithSubnet ==
    {i \in Matching : Has(ConfigList[i], "subnets") /\ ConfigList[i]["subnets"] # <<>>}

WellFormed(i) ==
    /\ Has(ConfigList[i], "subnets")
    /\ \A k \in 1..Len(ConfigList[i]["subnets"]) :
           /\ Has(ConfigList[i]["subnets"][k], "gateway")
           /\ Has(ConfigList[i]["subnets"][k], "address")

IfcfgWritten == DOMAIN files # {"etc/fstab", "etc/default/grub"}

IfcfgLines == SplitOn(files[IfcfgPath(BootInterface)], "\n")

IsLine(text) == \E n \in 1..Len(IfcfgLines) : IfcfgLines[n] = text

NetCallEnded == Done /\ rev = "R46" /\ sysnet # <<>>

(***************************************************************************)
(* C7 as claimed: write_network_config of R46 raises, and writes no ifcfg  *)
(* file, whenever the config is None or has no entry named as the boot     *)
(* interface with at least one subnet; when there is such an entry it      *)
(* writes the address and the gateway of a subnet of such an entry.        *)
(***************************************************************************)
C7_WritesWheneverEntryExists ==
    NetCallEnded =>
        IF BootInterfaces = {} \/ netcfg.kind = "null" \/ WithSubnet = {}
        THEN outcome = "uncaught" /\ ~IfcfgWritten
        ELSE /\ outcome = "exit0"
             /\ \E i \in WithSubnet : \E k \in 1..Len(ConfigList[i]["subnets"]) :
                  LET sub == ConfigList[i]["subnets"][k] IN
                  /\ Has(sub, "address") /\ Has(sub, "gateway")
                  /\ IsLine("IPADDR=\"" \o Remove(sub["address"], "/24") \o "\"")
                  /\ IsLine("GATEWAY=\"" \o sub["gateway"] \o "\"")

(***************************************************************************)
(* C7 amended: write_network_config of R46 raises, and writes no ifcfg     *)
(* file, whenever no interface carries the boot MAC, the config is None,   *)
(* no entry named as the boot interface has a subnet, or an entry so named *)
(* lacks "subnets" or has a subnet without "gateway" or "address";         *)
(* otherwise it writes to the ifcfg file of the boot interface the gateway *)
(* and the address, without "/24", of the last subnet of the last such     *)
(* entry that has subnets.                                                 *)
(***************************************************************************)
C7_NetworkConfig ==
    NetCallEnded =>
        IF \/ BootInterfaces = {} \/ netcfg.kind = "null" \/ WithSubnet = {}
           \/ \E i \in Matching : ~WellFormed(i)
        THEN outcome = "uncaught" /\ ~IfcfgWritten
        ELSE LET i == CHOOSE e \in WithSubnet : \A m \in WithSubnet : m <= e
                 subnets == ConfigList[i]["subnets"]
                 sub == subnets[Len(subnets)]
             IN  /\ outcome = "exit0"
                 /\ DOMAIN files =
                        {"etc/fstab", "etc/default/grub", IfcfgPath(BootInterface)}
                 /\ IsLine("IPADDR=\"" \o Remove(sub["address"], "/24") \o "\"")
                 /\ IsLine("GATEWAY=\"" \o sub["gateway"] \o "\"")

\* the last subnet of two wins, for the interface found by its upper-case
\* address
C7_Witness ==
    /\ NetCallEnded /\ outcome = "exit0"
    /\ Len(ConfigList) = 2
    /\ BootInterface = "eth1"
    /\ IsLine("IPADDR=\"10.0.3.3\"") /\ IsLine("GATEWAY=\"10.0.3.1\"")

(***************************************************************************)
(* C8 as claimed: in both revisions the file written for the boot          *)
(* interface is ifcfg-<name> of the interface whose address is the boot    *)
(* MAC, compared without case, and configures it for DHCP:                 *)
(* BOOTPROTO="dhcp", ONBOOT="yes", HWADDR the upper-cased boot MAC.        *)
(***************************************************************************)
C8_IfcfgIsDhcp ==
    (Done /\ outcome = "exit0") =>
        /\ IfcfgPath(BootInterface) \in DOMAIN files
        /\ IsLine("BOOTPROTO=\"dhcp\"")
        /\ IsLine("ONBOOT=\"yes\"")
        /\ IsLine("HWADDR=\"" \o Upper(bootmac) \o "\"")

(***************************************************************************)
(* The mount stage of R46's install_efi in the log.                        *)
(***************************************************************************)
MountsOnEfi == Events("mount", EfiPath)
UmountsOnEfi == Events("umount", EfiPath)
EfiGrubInstalls == EventsOf("grub2-install --target=x86_64-efi")

FirstOf(S) == CHOOSE i \in S : \A k \in S : i <= k

IsEvent(i, op, arg) == i <= Len(log) /\ log[i].op = op /\ log[i].arg = arg

(***************************************************************************)
(* C9: in R46's install_efi a failed mount on boot/efi never propagates.   *)
(* After the first mount fails an umount is tried and, if it succeeds, one *)
(* more mount; there are at most two mount attempts; once install_efi has  *)
(* ended, grub2-install --target=x86_64-efi has been invoked, and the      *)
(* final umount of boot/efi has been issued exactly when one of the mount  *)
(* attempts succeeded.                                                     *)
(***************************************************************************)
C9_MountFailureSwallowed ==
    (rev = "R46" /\ MountsOnEfi # {}) =>
        LET m1 == FirstOf(MountsOnEfi) IN
        /\ Cardinality(MountsOnEfi) <= 2
        /\ (~log[m1].ok /\ pc # "efi_retry_umount") => IsEvent(m1 + 1, "umount", EfiPath)
        /\ (~log[m1].ok /\ IsEvent(m1 + 1, "umount", EfiPath) /\ log[m1 + 1].ok
            /\ pc # "efi_retry_mount") => IsEvent(m1 + 2, "mount", EfiPath)
        /\ \A m \in MountsOnEfi \ {m1} :
               ~log[m1].ok /\ m = m1 + 2 /\ IsEvent(m1 + 1, "umount", EfiPath)
               /\ log[m1 + 1].ok
        /\ pc \notin EfiPcs =>
               /\ EfiGrubInstalls # {}
               /\ (\E k \in UmountsOnEfi : k > FirstOf(EfiGrubInstalls))
                      <=> (\E m \in MountsOnEfi : log[m].ok)

\* both mount attempts failed, grub2-install ran all the same, no final
\* umount, and main goes on
C9_Witness ==
    /\ rev = "R46" /\ pc = "load_config"
    /\ Cardinality(MountsOnEfi) = 2
    /\ \A m \in MountsOnEfi : ~log[m].ok
    /\ \E g \in EfiGrubInstalls : log[g].ok /\ \A k \in UmountsOnEfi : k < g

(***************************************************************************)
(* C10: in a run of main that reaches its end, etc/fstab is written, then  *)
(* etc/default/grub appended, then grub2-mkconfig run, then the bootloader *)
(* installed, then .autorelabel created, and the ifcfg file written last;  *)
(* in any run, grub2-mkconfig never runs before etc/default/grub has been  *)
(* updated and no bootloader install runs before grub2-mkconfig.           *)
(***************************************************************************)
\* what install_efi and grub2_install do
InstallEvents ==
    {i \in 1..Len(log) :
        \/ log[i].op \in {"grub2-install --recheck", "grub2-install --target=x86_64-efi",
                          "mount", "umount"}
        \/ log[i].op = "copytree" /\ log[i].arg # "yxp"}

Mkconfigs == EventsOf("grub2-mkconfig")

Only(S) == CHOOSE i \in S : TRUE

C10_StepOrder ==
    /\ \A k \in Mkconfigs : \E g \in Events("write", "etc/default/grub") : g < k
    /\ \A b \in InstallEvents : \E k \in Mkconfigs : k < b /\ log[k].ok
    /\ (Done /\ outcome = "exit0") =>
           LET fs == Events("write", "etc/fstab")
               gs == Events("write", "etc/default/grub")
               as == Events("write", ".autorelabel")
               ns == Events("write", IfcfgPath(BootInterface))
           IN  /\ Cardinality(fs) = 1 /\ Cardinality(gs) = 1
               /\ Cardinality(Mkconfigs) = 1 /\ Cardinality(as) = 1
               /\ InstallEvents # {}
               /\ Only(fs) < Only(gs)
               /\ Only(gs) < Only(Mkconfigs)
               /\ \A b \in InstallEvents : Only(Mkconfigs) < b /\ b < Only(as)
               /\ ns = {Len(log)}
               /\ Only(as) < Len(log)

\* a UEFI run of R46 that reached the end of main
C10_Witness ==
    /\ Done /\ outcome = "exit0" /\ rev = "R46" /\ uefi
    /\ EfiGrubInstalls # {}
    /\ Events("write", IfcfgPath(BootInterface)) = {Len(log)}

(***************************************************************************)
(* The bootloader branch of main in the log.                               *)
(***************************************************************************)
InstallEfiCalls == EventsOf("install_efi")
Rechecks == EventsOf("grub2-install --recheck")
MountCommands == EventsOf("mount") \cup EventsOf("umount")

\* the distinct block devices of the partitions mounted at the target
BackingDevices ==
    IF mp_devs = NoDevs THEN {}
    ELSE {get_blockdev_for_partition(mp_devs[i]) : i \in 1..Len(mp_devs)}

\* arg is the device path of the first partition labelled uefi-boot
IsUefiBootPath(arg) ==
    \E i \in 1..Len(lsblock) :
        /\ lsblock[i]["LABEL"] = "uefi-boot"
        /\ lsblock[i]["device_path"] = arg
        /\ \A k \in 1..(i - 1) : lsblock[k]["LABEL"] # "uefi-boot"

\* grub2_mkconfig has returned and main has come to its bootloader branch
AtBranch == \E k \in Mkconfigs : log[k].ok

\* main has gone on after its bootloader branch
PastBranch ==
    \/ pc \in {"load_config", "set_autorelabel", "write_network_config"}
    \/ netcfg # NoNetConfig
    \/ Events("write", ".autorelabel") # {}

(***************************************************************************)
(* C11 as claimed: a run of main that has come to its bootloader branch    *)
(* and has ended took exactly one branch: in UEFI mode it called           *)
(* install_efi once, on the device path of the partition labelled          *)
(* uefi-boot, and never invoked grub2-install --recheck; in BIOS mode it   *)
(* invoked grub2-install --recheck exactly once for each distinct block    *)
(* device backing the target and issued no mount or umount.                *)
(***************************************************************************)
C11_ExactlyOneBranchPerRun ==
    (Done /\ AtBranch) =>
        IF uefi
        THEN /\ Cardinality(InstallEfiCalls) = 1
             /\ \A c \in InstallEfiCalls : IsUefiBootPath(log[c].arg)
             /\ Rechecks = {}
        ELSE /\ \A dev \in BackingDevices :
                    Cardinality(Events("grub2-install --recheck", dev)) = 1
             /\ \A g \in Rechecks : log[g].arg \in BackingDevices
             /\ InstallEfiCalls = {} /\ MountCommands = {}

(***************************************************************************)
(* C11 amended: main takes at most one bootloader branch per run.  In UEFI *)
(* mode it never invokes grub2-install --recheck and calls install_efi at  *)
(* most once, on the device path of the first partition labelled           *)
(* uefi-boot, and exactly once in a run that goes on after the branch.  In *)
(* BIOS mode it never calls install_efi nor issues a mount or umount, and  *)
(* it invokes grub2-install --recheck on distinct block devices backing    *)
(* the target only, at most once each, exactly once and with success for   *)
(* each in a run that goes on after the branch; a run that has ended with  *)
(* a device left out ended with a failed invocation or before the branch.  *)
(***************************************************************************)
C11_BootloaderBranch ==
    /\ uefi => Rechecks = {}
    /\ ~uefi => (InstallEfiCalls = {} /\ MountCommands = {})
    /\ Cardinality(InstallEfiCalls) <= 1
    /\ \A c \in InstallEfiCalls : IsUefiBootPath(log[c].arg)
    /\ \A g \in Rechecks :
           /\ log[g].arg \in BackingDevices
           /\ \A h \in Rechecks : log[h].arg = log[g].arg => h = g
    /\ PastBranch =>
           IF uefi THEN Cardinality(InstallEfiCalls) = 1
           ELSE \A dev \in BackingDevices :
                    \E g \in Events("grub2-install --recheck", dev) : log[g].ok
    /\ (Done /\ AtBranch /\ ~uefi
        /\ \E dev \in BackingDevices : Events("grub2-install --recheck", dev) = {}) =>
           (Rechecks # {} /\ Len(log) \in Rechecks /\ ~log[Len(log)].ok
            /\ outcome = "uncaught")

\* a BIOS run that reached the end of main after grub2-install on each of
\* the two block devices behind three partitions
C11_Witness ==
    /\ Done /\ outcome = "exit0" /\ ~uefi
    /\ Len(mp_devs) = 3 /\ BackingDevices = {"/dev/sda", "/dev/sdb"}
    /\ Cardinality(Rechecks) = 2
    /\ \A g \in Rechecks : log[g].ok

(***************************************************************************)
(* The four checks of main and what a run has done under the target.       *)
(***************************************************************************)
CheckMessages ==
    {"Target was not provided in the environment.",
     "/etc/fstab output was not provided in the environment.",
     "Unable to determine boot interface.",
     "Unable to find block device for: " \o TargetPath}

ExitedOnCheck == Done /\ outcome = "exit1" /\ diag \in CheckMessages

\* no command invoked, nothing written or copied, the files as they were
NothingDone ==
    /\ log = <<>>
    /\ files = ("etc/fstab" :> OldFstab) @@ ("etc/default/grub" :> OldGrub)
    /\ ~tmpMounted

(***************************************************************************)
(* C12: whenever main exits because the target path, the fstab path, the   *)
(* boot MAC or the block devices of the target are missing, it has not     *)
(* created, modified or copied any file or directory under the target and  *)
(* has not invoked any external command.                                   *)
(***************************************************************************)
C12_ChecksBeforeSideEffects == ExitedOnCheck => NothingDone

(***************************************************************************)
(* What build_image is to set for an edition and an architecture.          *)
(***************************************************************************)
Rejected(p) == p.edition \notin {"6", "7"} \/ (p.edition = "7" /\ p.arch = "i386")

Kickstart(p) == "centos" \o p.edition \o "-" \o p.arch \o ".ks"

\* s holds sub
Contains(s, sub) ==
    \E i \in 1..(Len(s) - Len(sub) + 1) : SubSeq(s, i, i + Len(sub) - 1) = sub

EndsWith(s, sub) ==
    Len(sub) <= Len(s) /\ SubSeq(s, Len(s) - Len(sub) + 1, Len(s)) = sub

\* b is configured for the edition and the architecture of p
ConfiguredFor(b, p) ==
    /\ b.edition = p.edition
    /\ b.install_location # ""
    /\ StartsWith(b.install_location,
                  "http://mirror.centos.org/centos/" \o p.edition \o "/os/")
    /\ b.extra_arguments # None
    /\ Contains(b.extra_arguments, "ks=file:/" \o Kickstart(p) \o " ")
    /\ b.initrd_inject # None
    /\ EndsWith(b.initrd_inject, "centos" \o p.edition \o "/" \o Kickstart(p))

BuildImageEnded == pc = "build_image" /\ params # NoParams

(***************************************************************************)
(* C13: build_image validates before it configures.  For params that       *)
(* validate_params rejects (edition not 6 or 7, or edition 7 on i386) it   *)
(* raises BuildError and leaves edition, install_location, extra_arguments *)
(* and initrd_inject as the call found them, and the parent build_image is *)
(* not called; for params it accepts, install_location is a mirror URL and *)
(* extra_arguments and initrd_inject name the kickstart of that edition    *)
(* and architecture when the parent build_image is called and after.       *)
(***************************************************************************)
C13_ValidatesBeforeConfiguring ==
    /\ pc \in {"validate_params", "configure"} => builder = entry
    /\ (params # NoParams /\ Rejected(params)) =>
           /\ builder = entry
           /\ pc \in {"validate_params", "build_image"}
           /\ BuildImageEnded => (outcome = "BuildError" /\ diag # "virt-install")
    /\ (params # NoParams /\ ~Rejected(params)
        /\ (pc = "super.build_image" \/ BuildImageEnded)) =>
           (ConfiguredFor(builder, params) /\ diag \in {"", "virt-install"})

\* a builder configured for CentOS 6 on i386 by an earlier call, as a call
\* for CentOS 7 on i386 has left it
C13_Witness ==
    /\ BuildImageEnded /\ outcome = "BuildError"
    /\ params = [edition |-> "7", arch |-> "i386"]
    /\ builder = entry
    /\ ConfiguredFor(builder, [edition |-> "6", arch |-> "i386"])

(***************************************************************************)
(* The stanza get_ipv4_config returned, line by line.                      *)
(***************************************************************************)
Ipv4Returned == pc = "get_ipv4_config returned"

StanzaLines == SplitOn(config.text, "\n")

LinesWith(prefix) == {i \in 1..Len(StanzaLines) : StartsWith(StanzaLines[i], prefix)}

\* exactly one line starts with prefix, and it is line
OneLine(prefix, line) ==
    /\ Cardinality(LinesWith(prefix)) = 1
    /\ \A i \in LinesWith(prefix) : StanzaLines[i] = line

OneOfHwaddrAndDevice ==
    IF "hwaddress" \in DOMAIN data
    THEN OneLine("HWADDR=", "HWADDR=\"AA:BB:CC:DD:EE:FF\"") /\ LinesWith("DEVICE=") = {}
    ELSE OneLine("DEVICE=", "DEVICE=\"eth0\"") /\ LinesWith("HWADDR=") = {}

OneOnboot ==
    OneLine("ONBOOT=", IF data["auto"] THEN "ONBOOT=\"yes\"" ELSE "ONBOOT=\"no\"")

(***************************************************************************)
(* C14 as claimed: for every interface description of method dhcp, static  *)
(* or manual, get_ipv4_config returns in both revisions a stanza with      *)
(* exactly one of HWADDR and DEVICE, exactly one ONBOOT line and exactly   *)
(* one BOOTPROTO line, whose value is the same in R33 and R46: dhcp for    *)
(* dhcp, none for static, none for manual.                                 *)
(***************************************************************************)
C14_SameBootprotoInBothRevisions ==
    (Ipv4Returned /\ data["method"] \in {"dhcp", "static", "manual"}) =>
        /\ ~config.raised
        /\ OneOfHwaddrAndDevice
        /\ OneOnboot
        /\ OneLine("BOOTPROTO=",
                   IF data["method"] = "dhcp" THEN "BOOTPROTO=\"dhcp\""
                   ELSE "BOOTPROTO=\"none\"")

(***************************************************************************)
(* C14 amended: for every interface description that holds auto and        *)
(* method, get_ipv4_config raises in both revisions when the method is     *)
(* static and address or netmask is missing; otherwise it returns a stanza *)
(* with exactly one of HWADDR and DEVICE, exactly one ONBOOT line, and     *)
(* exactly one BOOTPROTO line for dhcp, static and manual (none for any    *)
(* other method): dhcp for dhcp and none for manual in both revisions, for *)
(* static none in R33 and static in R46.                                   *)
(***************************************************************************)
C14_Ipv4Stanza ==
    Ipv4Returned =>
        IF data["method"] = "static" /\ ~({"address", "netmask"} \subseteq DOMAIN data)
        THEN config.raised
        ELSE /\ ~config.raised
             /\ OneOfHwaddrAndDevice
             /\ OneOnboot
             /\ CASE data["method"] = "dhcp" -> OneLine("BOOTPROTO=", "BOOTPROTO=\"dhcp\"")
                  [] data["method"] = "manual" -> OneLine("BOOTPROTO=", "BOOTPROTO=\"none\"")
                  [] data["method"] = "static" ->
                         OneLine("BOOTPROTO=",
                                 IF rev = "R33" THEN "BOOTPROTO=\"none\""
                                 ELSE "BOOTPROTO=\"static\"")
                  [] OTHER -> LinesWith("BOOTPROTO=") = {}

\* R46 on a static description without hwaddress: DEVICE, and BOOTPROTO static
C14_Witness ==
    /\ Ipv4Returned /\ rev = "R46" /\ ~config.raised
    /\ data["method"] = "static" /\ "hwaddress" \notin DOMAIN data
    /\ \E i \in 1..Len(StanzaLines) : StanzaLines[i] = "BOOTPROTO=\"static\""
    /\ \E i \in 1..Len(StanzaLines) : StanzaLines[i] = "DEVICE=\"eth0\""

(***************************************************************************)
(* The GRUB_CMDLINE_LINUX lines of etc/default/grub, in the order the      *)
(* calls of update_grub_default appended them.                             *)
(***************************************************************************)
IsGrubCmdline(line) == StartsWith(line, "GRUB_CMDLINE_LINUX=")

GrubCmdlines == SelectSeq(SplitOn(files["etc/default/grub"], "\n"), IsGrubCmdline)

(***************************************************************************)
(* C15: update_grub_default leaves the list passed as extra, and the       *)
(* default list, unchanged, so successive calls with the same arguments    *)
(* each append the same GRUB_CMDLINE_LINUX value: nothing carries over     *)
(* from one call to the next.                                              *)
(***************************************************************************)
C15_NoStateCarriesOver ==
    (pc = "call" /\ EventsOf("update_grub_default") # {}) =>
        /\ default_extra = <<>>
        /\ Len(GrubCmdlines) = Len(log)
        /\ \A i, k \in 1..Len(log) :
               log[i].arg = log[k].arg => GrubCmdlines[i] = GrubCmdlines[k]

=============================================================================
